---- MODULE Spec2Model ----
(***************************************************************************)
(* Model of src/src/services/stockService.ts: the module-level cache, the  *)
(* cache-or-fetch-with-retry helper getCachedOrFetch, the three gateway    *)
(* operations fetchStocks / fetchStockPrice / fetchStockHistory that call  *)
(* it, and the time-series helper alignTimeSeriesData.                     *)
(***************************************************************************)
EXTENDS Integers, Sequences, FiniteSets, TLC

(***************************************************************************)
(* Bounds of the model.                                                    *)
(***************************************************************************)
\* total number of getCachedOrFetch calls in one behaviour
MaxCalls == 2
\* the clock runs from 0 to MaxTicks * TickMs milliseconds
MaxTicks == 40
\* the longest price history given to the time-series helpers
MaxLen == 3

(***************************************************************************)
(* Program constants.                                                      *)
(***************************************************************************)
CACHE_DURATION == 30 * 1000
MAX_RETRIES == 3
INITIAL_RETRY_DELAY == 1000

\* granularity of the modelled clock, in milliseconds
TickMs == INITIAL_RETRY_DELAY

MaxTime == MaxTicks * TickMs
\* how long the service is left alone between two calls, when it is
LongWait == CACHE_DURATION - TickMs

\* the slots of the async calls that can be running at the same time
Callers == 1..2

(***************************************************************************)
(* Inputs of the gateway operations.                                       *)
(***************************************************************************)
Ops == {"fetchStocks", "fetchStockPrice", "fetchStockHistory"}
NoTicker == ""
NoMinutes == 0

\* the argument lists the three operations are called with
Requests ==
    {[op |-> "fetchStocks", ticker |-> NoTicker, minutes |-> NoMinutes],
     [op |-> "fetchStockPrice", ticker |-> "A_5", minutes |-> NoMinutes],
     [op |-> "fetchStockHistory", ticker |-> "A", minutes |-> 5]}

\* mutant: the history key built with the prefix of the price key
CacheKeyOnePrefix(op, ticker, minutes) ==
    CASE op = "fetchStocks" -> "all_stocks"
      [] op = "fetchStockPrice" -> "stock_price_" \o ticker
      [] op = "fetchStockHistory" ->
             "stock_price_" \o ticker \o "_" \o ToString(minutes)

\* the template literals that build the cache key of each operation
CacheKey(op, ticker, minutes) ==
    CASE op = "fetchStocks" -> "all_stocks"
      [] op = "fetchStockPrice" -> "stock_price_" \o ticker
      [] op = "fetchStockHistory" ->
             "stock_history_" \o ticker \o "_" \o ToString(minutes)

Keys == {CacheKey(r.op, r.ticker, r.minutes) : r \in Requests}

(***************************************************************************)
(* Upstream responses and transport failures.                              *)
(***************************************************************************)
\* response.data: an array or not, and which payload it is
Responses == {[isArray |-> FALSE, id |-> 1], [isArray |-> TRUE, id |-> 1]}
EmptyArray == [isArray |-> TRUE, id |-> 0]

\* the errors api.get can reject with, by the fields the code inspects
AxiosErr(code, status, message) ==
    [isAxios |-> TRUE, code |-> code, status |-> status, message |-> message]
PlainErr(message) ==
    [isAxios |-> FALSE, code |-> "", status |-> 0, message |-> message]

TimeoutErr == AxiosErr("ECONNABORTED", 0, "timeout of 10000ms exceeded")
ForbiddenErr == AxiosErr("ERR_BAD_REQUEST", 403, "Request failed with status code 403")
NotFoundErr == AxiosErr("ERR_BAD_REQUEST", 404, "Request failed with status code 404")
BadRequestErr == AxiosErr("ERR_BAD_REQUEST", 400, "Request failed with status code 400")
CertErr == AxiosErr("CERT_HAS_EXPIRED", 0, "certificate has expired")
NetworkErr == AxiosErr("ERR_NETWORK", 0, "Network Error")

FiveKinds == {TimeoutErr, ForbiddenErr, NotFoundErr, BadRequestErr, CertErr}
TransportErrors == FiveKinds \cup {NetworkErr}

NoError == PlainErr("")
NoEntry == [data |-> EmptyArray, timestamp |-> -1, present |-> FALSE]

(***************************************************************************)
(* Numbers.  The prices are integers and the statistics are computed in    *)
(* exact arithmetic: a quotient is the fraction in lowest terms, x / 0 is  *)
(* NaN for x = 0 and infinite otherwise, and a value the code takes the    *)
(* square root of is kept as its sign and its square.                      *)
(***************************************************************************)
Abs(x) == IF x < 0 THEN -x ELSE x
Sign(x) == IF x < 0 THEN -1 ELSE IF x > 0 THEN 1 ELSE 0
Min(x, y) == IF x < y THEN x ELSE y

RECURSIVE GCD(_, _)
GCD(x, y) == IF y = 0 THEN x ELSE GCD(y, x % y)

\* numerator / denominator, the denominator not negative
Divide(numerator, denominator) ==
    IF denominator = 0
    THEN [num |-> Sign(numerator), den |-> 0]
    ELSE LET g == GCD(Abs(numerator), denominator)
         IN  [num |-> numerator \div g, den |-> denominator \div g]

NaN == [num |-> 0, den |-> 0]
Number(x) == [num |-> x, den |-> 1]

\* a real number r as its sign and the fraction r * r
SignedRoot(sign, square) == [sign |-> sign, num |-> square.num, den |-> square.den]
Zero == SignedRoot(0, Number(0))
One == SignedRoot(1, Number(1))
MinusOne == SignedRoot(-1, Number(1))

\* reduce((acc, val) => acc + val, 0)
RECURSIVE Sum(_)
Sum(values) ==
    IF values = <<>> THEN 0
    ELSE Sum(SubSeq(values, 1, Len(values) - 1)) + values[Len(values)]

VARIABLES
    faults,      \* environment: the transport failures the upstream produces
    slots,       \* environment: how many calls can be running at the same time
    now,         \* Date.now()
    cache,       \* the module-level cache: key -> CacheItem, NoEntry when absent
    owner,       \* history: the operation that wrote the entry of each key
    successAt,   \* history: clock value at the last successful store of each key
    calls,       \* number of getCachedOrFetch calls begun so far
    pc,          \* where each caller is in getCachedOrFetch
    cop,         \* the gateway operation the caller called
    ckey,        \* the call's key argument
    cnow,        \* the call's local const now
    retryCount,  \* the call's loop variable
    lastError,   \* the call's local lastError
    wakeAt,      \* when the pending setTimeout of the call is due
    rawError,    \* history: what api.get last rejected with in the call
    fetched,     \* history: what fetchFn last resolved to in the call
    result,      \* the value the call returned
    thrown,      \* the message of the Error the call threw
    invoked,     \* history: how many times the call invoked fetchFn
    delays,      \* history: the delays the call passed to setTimeout
    snap,        \* history: the cache as it was when the call began
    alone,       \* history: no other call has run since the call began
    stockAHistory,  \* first argument of the time-series helper
    stockBHistory,  \* second argument of the time-series helper
    alignedData,    \* what alignTimeSeriesData returned
    step,           \* "idle", "input" before a helper ran, and which one ran
    correlation,    \* what calculateCorrelation returned
    statistics,     \* what calculateStatistics returned
    stockStats,     \* what getStockStats returned
    stocks,         \* prop of CorrelationHeatmap: the instrument list
    timeframe,      \* prop of CorrelationHeatmap: the window in minutes
    maxStocks,      \* prop of CorrelationHeatmap: the limit
    bpc,            \* where fetchAllStockHistories is
    fetchStatus,    \* per visible instrument: state of its promise
    results,        \* per visible instrument: what its promise resolved to
    requested,      \* history: the arguments fetchStockHistory was called with
    loading,        \* component state
    error,          \* component state
    correlationMatrix,  \* component state
    stockHistories, \* component state: symbol -> history
    earlier         \* the call of fetchAllStockHistories made by the render
                    \* before the last one, while it is suspended

callVars == <<pc, cop, ckey, cnow, retryCount, lastError, wakeAt, rawError,
              fetched, result, thrown, invoked, delays, snap, alone>>
envVars == <<faults, slots>>
seriesVars == <<stockAHistory, stockBHistory, alignedData, step, correlation,
                statistics, stockStats>>
buildVars == <<stocks, timeframe, maxStocks, bpc, fetchStatus, results,
               requested, loading, error, correlationMatrix, stockHistories,
               earlier>>
serviceVars == <<envVars, now, cache, owner, successAt, calls, callVars>>
vars == <<serviceVars, seriesVars, buildVars>>

(***************************************************************************)
(* getCachedOrFetch and the closures the gateway operations pass to it.    *)
(***************************************************************************)
\* mutant: a delay that grows linearly
getRetryDelayLinear(rc) == INITIAL_RETRY_DELAY * (rc + 1)

getRetryDelay(rc) == INITIAL_RETRY_DELAY * (2 ^ rc)

\* mutant: an entry of age CACHE_DURATION still counts as fresh
IsFreshInclusive(item, t) == item.present /\ t - item.timestamp <= CACHE_DURATION

\* cachedItem && now - cachedItem.timestamp < CACHE_DURATION
IsFresh(item, t) == item.present /\ t - item.timestamp < CACHE_DURATION

\* mutant: the fetched data is returned without being stored
NewItemDropped(data, startedAt) == NoEntry

\* mutant: the entry is stamped with the clock read when it is stored
NewItemStampedAtStore(data, startedAt) ==
    [data |-> data, timestamp |-> now, present |-> TRUE]

\* cache[key] = { data, timestamp: now }, now being the call's local constant
NewItem(data, startedAt) == [data |-> data, timestamp |-> startedAt, present |-> TRUE]

\* the for loop's condition, and the condition of the delay in its catch block
LoopCondition(rc) == rc <= MAX_RETRIES
ShouldDelay(rc) == rc < MAX_RETRIES

\* mutant: a failed attempt evicts the entry of the key
CacheAfterCatchEvict(c, key) == [c EXCEPT ![key] = NoEntry]

\* the catch block of the loop assigns lastError and nothing of the cache
CacheAfterCatch(c, key) == c

\* the Error thrown after the loop
RetryFailureMessage(err) ==
    "Failed after " \o ToString(MAX_RETRIES) \o " retries: "
        \o (IF err.isAxios THEN "API Error: " \o err.message
                           ELSE "An unexpected error occurred")

\* the catch block of the closure of fetchStocks
TranslateError(e) ==
    IF ~e.isAxios THEN e
    ELSE IF e.code = "ECONNABORTED"
        THEN PlainErr("Request timed out. Please check your internet connection.")
    ELSE IF e.status = 403
        THEN PlainErr("Access to the API is forbidden. Please check your credentials.")
    ELSE IF e.status = 404
        THEN PlainErr("The requested resource was not found.")
    ELSE IF e.code = "ERR_BAD_REQUEST"
        THEN PlainErr("Invalid request. Please check the API documentation.")
    ELSE IF e.code = "CERT_HAS_EXPIRED"
        THEN PlainErr("SSL certificate validation failed. Please check the API endpoint configuration.")
    ELSE e

\* what the closure of each operation rejects with when api.get rejects with e
ClosureError(op, e) == IF op = "fetchStocks" THEN TranslateError(e) ELSE e

\* what the closure of each operation resolves to when api.get resolves with resp
ClosureValue(op, resp) ==
    IF op = "fetchStockHistory"
    THEN (IF resp.isArray THEN resp ELSE EmptyArray)
    ELSE resp

Done(p) == pc[p] \in {"returned", "failed"}
NoneDone == \A q \in Callers : ~Done(q)

InitService ==
    /\ now = 0
    /\ cache = [k \in Keys |-> NoEntry]
    /\ owner = [k \in Keys |-> "none"]
    /\ successAt = [k \in Keys |-> -1]
    /\ calls = 0
    /\ pc = [p \in Callers |-> "idle"]
    /\ cop = [p \in Callers |-> "none"]
    /\ ckey = [p \in Callers |-> ""]
    /\ cnow = [p \in Callers |-> 0]
    /\ retryCount = [p \in Callers |-> 0]
    /\ lastError = [p \in Callers |-> NoError]
    /\ wakeAt = [p \in Callers |-> 0]
    /\ rawError = [p \in Callers |-> NoError]
    /\ fetched = [p \in Callers |-> EmptyArray]
    /\ result = [p \in Callers |-> EmptyArray]
    /\ thrown = [p \in Callers |-> ""]
    /\ invoked = [p \in Callers |-> 0]
    /\ delays = [p \in Callers |-> <<>>]
    /\ snap = [p \in Callers |-> [k \in Keys |-> NoEntry]]
    /\ alone = [p \in Callers |-> TRUE]

NoStatistics == [average |-> Number(0), standardDeviation |-> Zero]

NoSeries ==
    /\ stockAHistory = <<>>
    /\ stockBHistory = <<>>
    /\ alignedData = <<>>
    /\ step = "idle"
    /\ correlation = Zero
    /\ statistics = NoStatistics
    /\ stockStats = NoStatistics

\* no call of an earlier render is suspended
NoEarlier ==
    [pc |-> "none", visible |-> <<>>, minutes |-> 0, fetchStatus |-> <<>>,
     results |-> <<>>]

\* the heatmap component is not mounted
NoBuild ==
    /\ stocks = <<>>
    /\ timeframe = 0
    /\ maxStocks = 0
    /\ bpc = "unmounted"
    /\ fetchStatus = <<>>
    /\ results = <<>>
    /\ requested = <<>>
    /\ loading = FALSE
    /\ error = ""
    /\ correlationMatrix = <<>>
    /\ stockHistories = <<>>
    /\ earlier = NoEarlier

\* overlapping calls, against an upstream whose requests may time out
Init ==
    /\ faults = {TimeoutErr}
    /\ slots = 2
    /\ InitService
    /\ NoSeries
    /\ NoBuild

\* one call at a time, against an upstream that fails in every way
InitFaults ==
    /\ faults = TransportErrors
    /\ slots = 1
    /\ InitService
    /\ NoSeries
    /\ NoBuild

\* mutant: a retry looks at the cache again and reuses what another call stored
EnterIterationShared(p, key, rc, err) ==
    /\ retryCount' = [retryCount EXCEPT ![p] = rc]
    /\ IF rc > 0 /\ IsFresh(cache[key], now)
       THEN /\ pc' = [pc EXCEPT ![p] = "returned"]
            /\ result' = [result EXCEPT ![p] = cache[key].data]
            /\ UNCHANGED <<invoked, thrown>>
       ELSE /\ result' = result
            /\ IF LoopCondition(rc)
               THEN /\ pc' = [pc EXCEPT ![p] = "inflight"]
                    /\ invoked' = [invoked EXCEPT ![p] = @ + 1]
                    /\ thrown' = thrown
               ELSE /\ pc' = [pc EXCEPT ![p] = "failed"]
                    /\ thrown' = [thrown EXCEPT ![p] = RetryFailureMessage(err)]
                    /\ UNCHANGED invoked

\* one pass through the head of the for loop of the call on key, with loop
\* variable rc: either the try block invokes fetchFn, or the loop is left and
\* the Error is thrown
EnterIteration(p, key, rc, err) ==
    /\ retryCount' = [retryCount EXCEPT ![p] = rc]
    /\ result' = result
    /\ IF LoopCondition(rc)
       THEN /\ pc' = [pc EXCEPT ![p] = "inflight"]
            /\ invoked' = [invoked EXCEPT ![p] = @ + 1]
            /\ thrown' = thrown
       ELSE /\ pc' = [pc EXCEPT ![p] = "failed"]
            /\ thrown' = [thrown EXCEPT ![p] = RetryFailureMessage(err)]
            /\ UNCHANGED invoked

\* a gateway operation is called: getCachedOrFetch reads the clock and the
\* cache, returns the cached data or starts the first attempt
Begin(p, r) ==
    /\ pc[p] = "idle"
    /\ p <= slots
    /\ \A q \in Callers : q < p => pc[q] # "idle"
    /\ NoneDone
    /\ calls < MaxCalls
    /\ calls' = calls + 1
    /\ LET key == CacheKey(r.op, r.ticker, r.minutes)
           cachedItem == cache[key]
       IN  /\ cop' = [cop EXCEPT ![p] = r.op]
           /\ ckey' = [ckey EXCEPT ![p] = key]
           /\ cnow' = [cnow EXCEPT ![p] = now]
           /\ snap' = [snap EXCEPT ![p] = cache]
           /\ alone' = [q \in Callers |->
                          IF q = p THEN \A o \in Callers \ {p} : pc[o] = "idle"
                          ELSE IF pc[q] = "idle" THEN alone[q]
                          ELSE FALSE]
           /\ IF IsFresh(cachedItem, now)
              THEN /\ pc' = [pc EXCEPT ![p] = "returned"]
                   /\ result' = [result EXCEPT ![p] = cachedItem.data]
                   /\ UNCHANGED <<retryCount, invoked, thrown>>
              ELSE EnterIteration(p, key, 0, NoError)
    /\ UNCHANGED <<envVars, seriesVars, buildVars, now, cache, owner, successAt, lastError,
                   wakeAt, rawError, fetched, delays>>

\* the pending request of the call is answered: the data is stored and returned
Succeed(p, resp) ==
    /\ pc[p] = "inflight"
    /\ NoneDone
    /\ LET data == ClosureValue(cop[p], resp)
       IN  /\ cache' = [cache EXCEPT ![ckey[p]] = NewItem(data, cnow[p])]
           /\ fetched' = [fetched EXCEPT ![p] = data]
           /\ result' = [result EXCEPT ![p] = data]
    /\ owner' = [owner EXCEPT ![ckey[p]] = cop[p]]
    /\ successAt' = [successAt EXCEPT ![ckey[p]] = now]
    /\ pc' = [pc EXCEPT ![p] = "returned"]
    /\ UNCHANGED <<envVars, seriesVars, buildVars, now, calls, cop, ckey, cnow, retryCount,
                   lastError, wakeAt, rawError, thrown, invoked, delays, snap, alone>>

\* the pending request of the call fails: the catch block runs
Fail(p, e) ==
    /\ pc[p] = "inflight"
    /\ e \in faults
    /\ NoneDone
    /\ LET caught == ClosureError(cop[p], e)
       IN  /\ lastError' = [lastError EXCEPT ![p] = caught]
           /\ IF ShouldDelay(retryCount[p])
              THEN /\ pc' = [pc EXCEPT ![p] = "sleeping"]
                   /\ wakeAt' = [wakeAt EXCEPT ![p] = now + getRetryDelay(retryCount[p])]
                   /\ delays' = [delays EXCEPT ![p] = Append(@, getRetryDelay(retryCount[p]))]
                   /\ UNCHANGED <<retryCount, invoked, thrown, result>>
              ELSE /\ EnterIteration(p, ckey[p], retryCount[p] + 1, caught)
                   /\ UNCHANGED <<wakeAt, delays>>
    /\ rawError' = [rawError EXCEPT ![p] = e]
    /\ cache' = CacheAfterCatch(cache, ckey[p])
    /\ UNCHANGED <<envVars, seriesVars, buildVars, now, owner, successAt, calls, cop,
                   ckey, cnow, fetched, snap, alone>>

\* the setTimeout of the call is due: the loop goes on to its next iteration
Wake(p) ==
    /\ pc[p] = "sleeping"
    /\ NoneDone
    /\ now >= wakeAt[p]
    /\ EnterIteration(p, ckey[p], retryCount[p] + 1, lastError[p])
    /\ UNCHANGED <<envVars, seriesVars, buildVars, now, cache, owner, successAt, calls, cop,
                   ckey, cnow, lastError, wakeAt, rawError, fetched, delays, snap,
                   alone>>

\* the caller's continuation takes the outcome of the call; the call is over
Finish(p) ==
    /\ Done(p)
    /\ pc' = [pc EXCEPT ![p] = "idle"]
    /\ cop' = [cop EXCEPT ![p] = "none"]
    /\ ckey' = [ckey EXCEPT ![p] = ""]
    /\ cnow' = [cnow EXCEPT ![p] = 0]
    /\ retryCount' = [retryCount EXCEPT ![p] = 0]
    /\ lastError' = [lastError EXCEPT ![p] = NoError]
    /\ wakeAt' = [wakeAt EXCEPT ![p] = 0]
    /\ rawError' = [rawError EXCEPT ![p] = NoError]
    /\ fetched' = [fetched EXCEPT ![p] = EmptyArray]
    /\ result' = [result EXCEPT ![p] = EmptyArray]
    /\ thrown' = [thrown EXCEPT ![p] = ""]
    /\ invoked' = [invoked EXCEPT ![p] = 0]
    /\ delays' = [delays EXCEPT ![p] = <<>>]
    /\ snap' = [snap EXCEPT ![p] = [k \in Keys |-> NoEntry]]
    /\ alone' = [alone EXCEPT ![p] = TRUE]
    /\ UNCHANGED <<envVars, seriesVars, buildVars, now, cache, owner, successAt, calls>>

Active(p) == pc[p] \in {"inflight", "sleeping"}

\* time passes during a call: continuations run first, a pending request is
\* answered before the clock moves on, and timers fire when they are due
Tick ==
    /\ now < MaxTime
    /\ NoneDone
    /\ \E p \in Callers : Active(p)
    /\ \A p \in Callers : pc[p] # "inflight"
    /\ \A p \in Callers : pc[p] = "sleeping" => now < wakeAt[p]
    /\ now' = now + TickMs
    /\ UNCHANGED <<envVars, seriesVars, buildVars, cache, owner, successAt, calls, callVars>>

\* time passes while no call is running
IdleWait ==
    /\ now + LongWait <= MaxTime
    /\ calls > 0
    /\ \A p \in Callers : pc[p] = "idle"
    /\ now' = now + LongWait
    /\ UNCHANGED <<envVars, seriesVars, buildVars, cache, owner, successAt, calls, callVars>>

Next ==
    \/ \E p \in Callers, r \in Requests : Begin(p, r)
    \/ \E p \in Callers, resp \in Responses : Succeed(p, resp)
    \/ \E p \in Callers, e \in TransportErrors : Fail(p, e)
    \/ \E p \in Callers : Wake(p)
    \/ \E p \in Callers : Finish(p)
    \/ Tick
    \/ IdleWait

Spec == Init /\ [][Next]_vars
SpecFaults == InitFaults /\ [][Next]_vars

(***************************************************************************)
(* alignTimeSeriesData.  A JavaScript Map is modelled as the sequence of   *)
(* its entries in insertion order: set() on a key the map holds replaces   *)
(* the value and keeps the entry's place, keys() iterates in that order.   *)
(***************************************************************************)
Timestamps == {"t1", "t2", "t3"}
Prices == {10, 12}
PricePoints == [lastUpdatedAt : Timestamps, price : Prices]
Histories == UNION {[1..n -> PricePoints] : n \in 0..MaxLen}

\* timestamps are opaque keys, compared for equality only: a history that
\* names them in the order of their first occurrence stands for its renamings
StampNo == [t \in Timestamps |-> CASE t = "t1" -> 1 [] t = "t2" -> 2 [] t = "t3" -> 3]
FirstNamed(h) ==
    \A i \in 1..Len(h) :
        \A t \in Timestamps :
            StampNo[t] < StampNo[h[i].lastUpdatedAt] =>
                \E j \in 1..(i - 1) : h[j].lastUpdatedAt = t

MapHas(m, k) == \E i \in 1..Len(m) : m[i].key = k
MapGet(m, k) == m[CHOOSE i \in 1..Len(m) : m[i].key = k].value
\* mutant: set() on a key the map holds keeps the value it has
MapSetKeepFirst(m, k, v) ==
    IF MapHas(m, k) THEN m ELSE Append(m, [key |-> k, value |-> v])

\* mutant: every set() adds an entry, as push() on an array would
MapSetAppend(m, k, v) == Append(m, [key |-> k, value |-> v])

MapSet(m, k, v) ==
    IF MapHas(m, k)
    THEN [i \in 1..Len(m) |-> IF m[i].key = k THEN [key |-> k, value |-> v] ELSE m[i]]
    ELSE Append(m, [key |-> k, value |-> v])

\* history.forEach(item => map.set(item.lastUpdatedAt, item.price)) on a new Map
RECURSIVE MapOf(_)
MapOf(history) ==
    IF history = <<>> THEN <<>>
    ELSE LET item == history[Len(history)]
         IN  MapSet(MapOf(SubSeq(history, 1, Len(history) - 1)),
                    item.lastUpdatedAt, item.price)

\* the test of the loop over stockAMap.keys()
InBoth(stockBMap, timestamp) == MapHas(stockBMap, timestamp)

alignTimeSeriesData(historyA, historyB) ==
    LET stockAMap == MapOf(historyA)
        stockBMap == MapOf(historyB)
        common == SelectSeq(stockAMap, LAMBDA e : InBoth(stockBMap, e.key))
    IN  [i \in 1..Len(common) |->
            [timestamp |-> common[i].key,
             stockAPrice |-> MapGet(stockAMap, common[i].key),
             stockBPrice |-> MapGet(stockBMap, common[i].key)]]

(***************************************************************************)
(* calculateCorrelation, calculateStatistics and getStockStats.            *)
(***************************************************************************)
\* an argument that is null or undefined
Missing == <<[lastUpdatedAt |-> "undefined", price |-> 0]>>
IsMissing(history) == history = Missing

\* the first guard of calculateCorrelation
TooShort(historyA, historyB) ==
    IsMissing(historyA) \/ IsMissing(historyB) \/ Len(historyA) < 2 \/ Len(historyB) < 2

\* mutant: only a pair of two constant series counts as degenerate
ZeroDeviationBoth(xVariance, yVariance) == xVariance = 0 /\ yVariance = 0

\* xStdDev === 0 || yStdDev === 0, a square root being 0 when its argument is
ZeroDeviation(xVariance, yVariance) == xVariance = 0 \/ yVariance = 0

\* mutant: the covariance is averaged over all n points
CovarianceDivisorPopulation(n) == n

\* covariance /= (alignedData.length - 1)
CovarianceDivisor(n) == n - 1

\* mutant: the variances are averaged over all n points
VarianceDivisorPopulation(n) == n

\* xVariance /= (alignedData.length - 1), and the same for yVariance
VarianceDivisor(n) == n - 1

\* mutant: the covariance is divided by xStdDev * xStdDev
PearsonQuotientSlope(c, cd, xv, yv, vd) ==
    SignedRoot(Sign(c) * Sign(cd), Divide(c * c * vd * vd, cd * cd * xv * xv))

\* covariance / (xStdDev * yStdDev) for covariance = c / cd, xStdDev =
\* sqrt(xv / vd) and yStdDev = sqrt(yv / vd): its sign and its square
PearsonQuotient(c, cd, xv, yv, vd) ==
    SignedRoot(Sign(c) * Sign(cd), Divide(c * c * vd * vd, cd * cd * xv * yv))

\* the sums are kept multiplied by n * n: with xMean = xSum / n the code's
\* xDiff is (n * x - xSum) / n, and the same for yDiff
calculateCorrelation(historyA, historyB) ==
    IF TooShort(historyA, historyB) THEN Zero
    ELSE LET aligned == alignTimeSeriesData(historyA, historyB)
             n == Len(aligned)
         IN  IF n < 2 THEN Zero
             ELSE LET xValues == [i \in 1..n |-> aligned[i].stockAPrice]
                      yValues == [i \in 1..n |-> aligned[i].stockBPrice]
                      xSum == Sum(xValues)
                      ySum == Sum(yValues)
                      xDiff(i) == n * xValues[i] - xSum
                      yDiff(i) == n * yValues[i] - ySum
                      covariance == Sum([i \in 1..n |-> xDiff(i) * yDiff(i)])
                      xVariance == Sum([i \in 1..n |-> xDiff(i) * xDiff(i)])
                      yVariance == Sum([i \in 1..n |-> yDiff(i) * yDiff(i)])
                  IN  IF ZeroDeviation(xVariance, yVariance) THEN Zero
                      ELSE PearsonQuotient(covariance, CovarianceDivisor(n),
                                           xVariance, yVariance, VarianceDivisor(n))

\* sum of Math.pow(price - average, 2) for average = sum / n, times n * n
SquaredDiffs(prices) ==
    LET n == Len(prices)
        sum == Sum(prices)
    IN  Sum([i \in 1..n |-> (n * prices[i] - sum) * (n * prices[i] - sum)])

\* Math.sqrt of a fraction
Sqrt(square) == SignedRoot(Sign(square.num), square)

calculateStatistics(priceHistory) ==
    IF IsMissing(priceHistory) \/ Len(priceHistory) = 0 THEN NoStatistics
    ELSE LET prices == [i \in 1..Len(priceHistory) |-> priceHistory[i].price]
             n == Len(prices)
             average == Divide(Sum(prices), n)
             variance == Divide(SquaredDiffs(prices), n * n * n)
         IN  [average |-> average, standardDeviation |-> Sqrt(variance)]

\* stockHistories[stock.symbol] || []
HistoryOf(histories, symbol) ==
    IF MapHas(histories, symbol) THEN MapGet(histories, symbol) ELSE <<>>

\* stockIndex counts from 1 here
getStockStats(visibleStocks, histories, stockIndex) ==
    IF stockIndex > Len(visibleStocks) THEN NoStatistics
    ELSE LET history == HistoryOf(histories, visibleStocks[stockIndex])
         IN  IF Len(history) = 0 THEN NoStatistics
             ELSE LET prices == [i \in 1..Len(history) |-> history[i].price]
                      n == Len(prices)
                      avg == Divide(Sum(prices), n)
                      sumSqDiff == SquaredDiffs(prices)
                  IN  [average |-> avg,
                       standardDeviation |-> Sqrt(Divide(sumSqDiff, n * n * (n - 1)))]

\* the series of the examples: a rising series, and its double with the
\* prices in the same and in the opposite order
Rising == <<[lastUpdatedAt |-> "t1", price |-> 10],
            [lastUpdatedAt |-> "t2", price |-> 12],
            [lastUpdatedAt |-> "t3", price |-> 14]>>
Doubled == <<[lastUpdatedAt |-> "t1", price |-> 20],
             [lastUpdatedAt |-> "t2", price |-> 24],
             [lastUpdatedAt |-> "t3", price |-> 28]>>
Falling == <<[lastUpdatedAt |-> "t1", price |-> 28],
             [lastUpdatedAt |-> "t2", price |-> 24],
             [lastUpdatedAt |-> "t3", price |-> 20]>>
ExamplePairs ==
    {<<Rising, Doubled>>, <<Rising, Falling>>, <<Doubled, Rising>>, <<Falling, Rising>>}

\* the first and the second argument the time-series helpers are called with
FirstArguments == {h \in Histories : FirstNamed(h)} \cup {Missing}
SecondArguments == Histories \cup {Missing}

\* the results of the helpers before one of them was called
NoResults ==
    /\ alignedData = <<>>
    /\ step = "input"
    /\ correlation = Zero
    /\ statistics = NoStatistics
    /\ stockStats = NoStatistics

\* two price histories, as the upstream may deliver them
InitSeries ==
    /\ faults = {}
    /\ slots = 0
    /\ InitService
    /\ NoBuild
    /\ stockAHistory \in {h \in Histories : FirstNamed(h)}
    /\ stockBHistory \in Histories
    /\ NoResults

Align ==
    /\ step = "input"
    /\ alignedData' = alignTimeSeriesData(stockAHistory, stockBHistory)
    /\ step' = "aligned"
    /\ UNCHANGED <<serviceVars, buildVars, stockAHistory, stockBHistory,
                   correlation, statistics, stockStats>>

NextSeries == Align

SpecSeries == InitSeries /\ [][NextSeries]_vars

\* the arguments of calculateCorrelation: two histories, either of which may
\* be missing, or the series of an example
InitCorrelation ==
    /\ faults = {}
    /\ slots = 0
    /\ InitService
    /\ NoBuild
    /\ \/ stockAHistory \in FirstArguments /\ stockBHistory \in SecondArguments
       \/ \E pair \in ExamplePairs :
              stockAHistory = pair[1] /\ stockBHistory = pair[2]
    /\ NoResults

Correlate ==
    /\ step = "input"
    /\ correlation' = calculateCorrelation(stockAHistory, stockBHistory)
    /\ step' = "correlated"
    /\ UNCHANGED <<serviceVars, buildVars, stockAHistory, stockBHistory,
                   alignedData, statistics, stockStats>>

NextCorrelation == Correlate

SpecCorrelation == InitCorrelation /\ [][NextCorrelation]_vars

\* the one series the price chart and the heatmap tooltip show
InitStatistics ==
    /\ faults = {}
    /\ slots = 0
    /\ InitService
    /\ NoBuild
    /\ stockAHistory \in Histories \cup {Missing, Rising, Doubled}
    /\ stockBHistory = <<>>
    /\ NoResults

\* calculateStatistics is called with the series, getStockStats with the
\* index of the instrument whose history the component state holds
Statistics ==
    /\ step = "input"
    /\ statistics' = calculateStatistics(stockAHistory)
    /\ stockStats' = IF IsMissing(stockAHistory) THEN NoStatistics
                     ELSE getStockStats(<<"A">>,
                                        <<[key |-> "A", value |-> stockAHistory]>>, 1)
    /\ step' = "statistics"
    /\ UNCHANGED <<serviceVars, buildVars, stockAHistory, stockBHistory,
                   alignedData, correlation>>

NextStatistics == Statistics

SpecStatistics == InitStatistics /\ [][NextStatistics]_vars

(***************************************************************************)
(* CorrelationHeatmap: fetchAllStockHistories fetches the history of every *)
(* visible instrument and builds the correlation matrix.  A call of        *)
(* fetchStockHistory ends by resolving with an array or by rejecting.      *)
(***************************************************************************)
Symbols == {"X", "Y", "Z"}
\* the instrument lists: the rows are keyed by the symbol, no symbol twice
StockLists ==
    {list \in UNION {[1..n -> Symbols] : n \in 0..Cardinality(Symbols)} :
        \A i, j \in 1..Len(list) : i # j => list[i] # list[j]}
\* the values of the prop maxStocks, 10 being its default
Limits == {0, 1, 2, 10}
Timeframes == {5}

Point(t, p) == [lastUpdatedAt |-> t, price |-> p]
\* the arrays fetchStockHistory resolves with
Backwards == <<Point("t3", 20), Point("t2", 24), Point("t1", 28)>>
Repeated == <<Point("t1", 10), Point("t2", 12), Point("t1", 14), Point("t3", 10)>>
Shuffled == <<Point("t3", 12), Point("t1", 10), Point("t2", 12)>>
Flat == <<Point("t1", 10), Point("t2", 10)>>
Single == <<Point("t1", 10)>>
Deliveries == {Rising, Backwards, Repeated, Shuffled, Flat, Single, <<>>}

\* mutant: the whole list is used whatever the limit
visibleStocksAll(list, limit) == list

\* stocks.slice(0, maxStocks)
visibleStocks(list, limit) == SubSeq(list, 1, Min(limit, Len(list)))

\* mutant: a failed fetch is replaced by a placeholder series
CaughtResultPlaceholder(symbol) == [symbol |-> symbol, history |-> Rising]

\* the catch block of the promise of one instrument
CaughtResult(symbol) == [symbol |-> symbol, history |-> <<>>]

\* mutant: Promise.race in the place of Promise.all
AllSettledRace(status) == \E i \in 1..Len(status) : status[i] # "pending"

\* Promise.all(promises) resolves
AllSettled(status) == \A i \in 1..Len(status) : status[i] # "pending"

\* results.forEach(({ symbol, history }) => { histories[symbol] = history })
RECURSIVE CollectHistories(_)
CollectHistories(res) ==
    IF res = <<>> THEN <<>>
    ELSE LET last == res[Len(res)]
         IN  MapSet(CollectHistories(SubSeq(res, 1, Len(res) - 1)),
                    last.symbol, last.history)

\* mutant: the diagonal is computed like every other cell
CellComputed(i, j, historyA, historyB) == calculateCorrelation(historyA, historyB)

\* the body of the inner loop
Cell(i, j, historyA, historyB) ==
    IF i = j THEN One ELSE calculateCorrelation(historyA, historyB)

\* the two loops over visibleStocks
BuildMatrix(visible, histories) ==
    [i \in 1..Len(visible) |->
        [j \in 1..Len(visible) |->
            Cell(i, j, HistoryOf(histories, visible[i]),
                       HistoryOf(histories, visible[j]))]]

\* the component is rendered with its props
InitBuild ==
    /\ faults = {}
    /\ slots = 0
    /\ InitService
    /\ NoSeries
    /\ stocks \in StockLists
    /\ timeframe \in Timeframes
    /\ maxStocks \in Limits
    /\ bpc = "mounted"
    /\ fetchStatus = <<>>
    /\ results = <<>>
    /\ requested = <<>>
    /\ loading = FALSE
    /\ error = ""
    /\ correlationMatrix = <<>>
    /\ stockHistories = <<>>
    /\ earlier = NoEarlier

\* the effect calls fetchAllStockHistories: it returns at once on an empty
\* list; otherwise map() calls fetchStockHistory for every visible instrument
\* and the function suspends in await Promise.all
fetchAllStockHistories ==
    /\ bpc = "mounted"
    /\ LET visible == visibleStocks(stocks, maxStocks)
       IN  IF Len(visible) = 0
           THEN /\ bpc' = "returned"
                /\ UNCHANGED <<fetchStatus, results, requested, loading, error>>
           ELSE /\ bpc' = "awaiting"
                /\ loading' = TRUE
                /\ error' = ""
                /\ requested' = [i \in 1..Len(visible) |->
                                    [ticker |-> visible[i], minutes |-> timeframe]]
                /\ fetchStatus' = [i \in 1..Len(visible) |-> "pending"]
                /\ results' = [i \in 1..Len(visible) |->
                                  [symbol |-> visible[i], history |-> <<>>]]
    /\ UNCHANGED <<serviceVars, seriesVars, stocks, timeframe, maxStocks,
                   correlationMatrix, stockHistories, earlier>>

\* the fetch of instrument i resolves with history
HistoryFetched(i, history) ==
    /\ i \in 1..Len(fetchStatus)
    /\ fetchStatus[i] = "pending"
    /\ fetchStatus' = [fetchStatus EXCEPT ![i] = "fulfilled"]
    /\ results' = [results EXCEPT ![i] = [symbol |-> requested[i].ticker,
                                           history |-> history]]
    /\ UNCHANGED <<serviceVars, seriesVars, stocks, timeframe, maxStocks, bpc,
                   requested, loading, error, correlationMatrix, stockHistories,
                   earlier>>

\* the fetch of instrument i rejects: the catch block resolves its promise
HistoryFailed(i) ==
    /\ i \in 1..Len(fetchStatus)
    /\ fetchStatus[i] = "pending"
    /\ fetchStatus' = [fetchStatus EXCEPT ![i] = "caught"]
    /\ results' = [results EXCEPT ![i] = CaughtResult(requested[i].ticker)]
    /\ UNCHANGED <<serviceVars, seriesVars, stocks, timeframe, maxStocks, bpc,
                   requested, loading, error, correlationMatrix, stockHistories,
                   earlier>>

\* Promise.all resolved: the rest of fetchAllStockHistories runs
AllResolved ==
    /\ bpc = "awaiting"
    /\ AllSettled(fetchStatus)
    /\ LET histories == CollectHistories(results)
       IN  /\ stockHistories' = histories
           /\ correlationMatrix' =
                  BuildMatrix(visibleStocks(stocks, maxStocks), histories)
    /\ loading' = FALSE
    /\ bpc' = "built"
    /\ UNCHANGED <<serviceVars, seriesVars, stocks, timeframe, maxStocks,
                   fetchStatus, results, requested, error, earlier>>

NextBuild ==
    \/ fetchAllStockHistories
    \/ \E i \in 1..Cardinality(Symbols), history \in Deliveries :
           HistoryFetched(i, history)
    \/ \E i \in 1..Cardinality(Symbols) : HistoryFailed(i)
    \/ AllResolved

SpecBuild == InitBuild /\ [][NextBuild]_vars

(***************************************************************************)
(* CorrelationHeatmap rendered again while a call of                       *)
(* fetchAllStockHistories is suspended: the effect calls the function      *)
(* again, and the suspended call goes on with the values it captured.      *)
(***************************************************************************)
\* the props of the renders
RerenderLists ==
    {list \in StockLists :
        Len(list) <= 2 /\ \A i \in 1..Len(list) : list[i] \in {"X", "Y"}}
RerenderTimeframes == {5, 15}
\* the arrays fetchStockHistory resolves with
RerenderDeliveries == {Rising, Flat}

\* the component is rendered with its props, HeatmapPage passing the limit
InitRerender ==
    /\ faults = {}
    /\ slots = 0
    /\ InitService
    /\ NoSeries
    /\ stocks \in RerenderLists
    /\ timeframe \in RerenderTimeframes
    /\ maxStocks = 10
    /\ bpc = "mounted"
    /\ fetchStatus = <<>>
    /\ results = <<>>
    /\ requested = <<>>
    /\ loading = FALSE
    /\ error = ""
    /\ correlationMatrix = <<>>
    /\ stockHistories = <<>>
    /\ earlier = NoEarlier

\* the component is rendered again, with the same props or with new ones,
\* while its call of fetchAllStockHistories is suspended: visibleStocks is a
\* new array, so the callback is a new one and the effect is due again; the
\* suspended call keeps the visibleStocks and the timeframe of its own render
Rerender(list, minutes) ==
    /\ bpc = "awaiting"
    /\ earlier = NoEarlier
    /\ earlier' = [pc |-> "awaiting",
                   visible |-> visibleStocks(stocks, maxStocks),
                   minutes |-> timeframe,
                   fetchStatus |-> fetchStatus,
                   results |-> results]
    /\ stocks' = list
    /\ timeframe' = minutes
    /\ bpc' = "mounted"
    /\ fetchStatus' = <<>>
    /\ results' = <<>>
    /\ requested' = <<>>
    /\ UNCHANGED <<serviceVars, seriesVars, maxStocks, loading, error,
                   correlationMatrix, stockHistories>>

\* the fetch of instrument i of the earlier call resolves with history
EarlierFetched(i, history) ==
    /\ earlier.pc = "awaiting"
    /\ i \in 1..Len(earlier.fetchStatus)
    /\ earlier.fetchStatus[i] = "pending"
    /\ earlier' = [earlier EXCEPT
                      !.fetchStatus[i] = "fulfilled",
                      !.results[i] = [symbol |-> earlier.visible[i],
                                      history |-> history]]
    /\ UNCHANGED <<serviceVars, seriesVars, stocks, timeframe, maxStocks, bpc,
                   fetchStatus, results, requested, loading, error,
                   correlationMatrix, stockHistories>>

\* the fetch of instrument i of the earlier call rejects
EarlierFailed(i) ==
    /\ earlier.pc = "awaiting"
    /\ i \in 1..Len(earlier.fetchStatus)
    /\ earlier.fetchStatus[i] = "pending"
    /\ earlier' = [earlier EXCEPT
                      !.fetchStatus[i] = "caught",
                      !.results[i] = CaughtResult(earlier.visible[i])]
    /\ UNCHANGED <<serviceVars, seriesVars, stocks, timeframe, maxStocks, bpc,
                   fetchStatus, results, requested, loading, error,
                   correlationMatrix, stockHistories>>

\* Promise.all of the earlier call resolved: the rest of that call runs and
\* sets the state of the component
EarlierResolved ==
    /\ earlier.pc = "awaiting"
    /\ AllSettled(earlier.fetchStatus)
    /\ LET histories == CollectHistories(earlier.results)
       IN  /\ stockHistories' = histories
           /\ correlationMatrix' = BuildMatrix(earlier.visible, histories)
    /\ loading' = FALSE
    /\ earlier' = [earlier EXCEPT !.pc = "built"]
    /\ UNCHANGED <<serviceVars, seriesVars, stocks, timeframe, maxStocks, bpc,
                   fetchStatus, results, requested, error>>

NextRerender ==
    \/ fetchAllStockHistories
    \/ \E i \in 1..2, history \in RerenderDeliveries : HistoryFetched(i, history)
    \/ \E i \in 1..2 : HistoryFailed(i)
    \/ AllResolved
    \/ \E list \in RerenderLists, minutes \in RerenderTimeframes :
           Rerender(list, minutes)
    \/ \E i \in 1..2, history \in RerenderDeliveries : EarlierFetched(i, history)
    \/ \E i \in 1..2 : EarlierFailed(i)
    \/ EarlierResolved

SpecRerender == InitRerender /\ [][NextRerender]_vars

(***************************************************************************)
(* Properties of getCachedOrFetch and of the gateway operations.           *)
(***************************************************************************)
\* the entry of the call's key as the call found it, and its age then
FoundItem(p) == snap[p][ckey[p]]
StaleAtBegin(p) ==
    ~(FoundItem(p).present /\ cnow[p] - FoundItem(p).timestamp < 30000)

Contains(s, t) ==
    \E i \in 1..(Len(s) - Len(t) + 1) : SubSeq(s, i, i + Len(t) - 1) = t

\* C1: a call that finds an entry of its key less than 30000 ms old returns
\* the stored data and never invokes its operation; a call that finds no entry,
\* or one that is 30000 ms old or older, invokes its operation at least once.
C1_FastPath ==
    \A p \in Callers :
        pc[p] # "idle" =>
            IF FoundItem(p).present /\ cnow[p] - FoundItem(p).timestamp < 30000
            THEN pc[p] = "returned" /\ result[p] = FoundItem(p).data /\ invoked[p] = 0
            ELSE invoked[p] >= 1

C1_Witness ==
    \E p \in Callers :
        /\ pc[p] = "returned"
        /\ invoked[p] = 0
        /\ FoundItem(p).present
        /\ cnow[p] - FoundItem(p).timestamp = 29000

\* C2: a call whose operation fails every time has invoked it exactly 4 times
\* when it throws, has slept 1000, 2000 and 4000 ms between the attempts (7000
\* ms in all) and not after the 4th, and throws the retry-exhausted error.
C2_AlwaysFails ==
    \A p \in Callers :
        /\ \A i \in 1..Len(delays[p]) : delays[p][i] = 1000 * (2 ^ (i - 1))
        /\ pc[p] = "sleeping" =>
               /\ Len(delays[p]) = invoked[p]
               /\ wakeAt[p] - delays[p][Len(delays[p])] >= cnow[p]
        /\ pc[p] = "failed" =>
               /\ invoked[p] = 4
               /\ delays[p] = <<1000, 2000, 4000>>
               /\ now - cnow[p] >= 7000
               /\ SubSeq(thrown[p], 1, 24) = "Failed after 3 retries: "

C2_Witness ==
    \E p \in Callers : pc[p] = "failed" /\ invoked[p] = 4 /\ now - cnow[p] = 7000

\* C3: a call that found no fresh entry has, when it returns, invoked its
\* operation once per failed attempt and once more for the first success (at
\* most 4 times), the entry of its key holds the data that attempt fetched,
\* whatever was stored before, and the call returns that data.
C3_FirstSuccess ==
    \A p \in Callers :
        (pc[p] = "returned" /\ StaleAtBegin(p)) =>
            /\ invoked[p] = Len(delays[p]) + 1
            /\ invoked[p] <= 4
            /\ cache[ckey[p]].present
            /\ cache[ckey[p]].data = fetched[p]
            /\ result[p] = fetched[p]

C3_Witness ==
    \E p \in Callers :
        /\ pc[p] = "returned"
        /\ invoked[p] = 2
        /\ FoundItem(p).present
        /\ FoundItem(p).data # fetched[p]
        /\ cache[ckey[p]].data = fetched[p]

\* C4 (as claimed): a call that begins less than 30000 ms after the last
\* successful store of its key never invokes its operation and returns the
\* stored data.
C4_FreshAfterSuccess ==
    [][\A p \in Callers :
          (/\ pc[p] = "idle"
           /\ pc'[p] # "idle"
           /\ successAt[ckey'[p]] >= 0
           /\ now - successAt[ckey'[p]] < 30000)
          => (invoked'[p] = 0 /\ result'[p] = cache[ckey'[p]].data)]_vars

\* C5: when a call throws after all its attempts failed and no other call ran
\* meanwhile, the cache is what it was when the call began, and the entry of
\* the call's key is still absent or stale.
C5_FailureLeavesCache ==
    \A p \in Callers :
        (pc[p] = "failed" /\ alone[p]) =>
            /\ cache = snap[p]
            /\ ~(cache[ckey[p]].present /\ now - cache[ckey[p]].timestamp < 30000)

C5_Witness ==
    \E p \in Callers :
        /\ pc[p] = "failed"
        /\ alone[p]
        /\ FoundItem(p).present
        /\ cache[ckey[p]] = FoundItem(p)

\* C6 (as claimed): the Error a call throws after all attempts failed carries
\* the message of the last error its operation threw, and the attempt count 4.
C6_CarriesLastError ==
    \A p \in Callers :
        pc[p] = "failed" =>
            /\ Contains(thrown[p], lastError[p].message)
            /\ Contains(thrown[p], ToString(invoked[p]))

\* C7 (as claimed): in every operation, a transport failure of one of the five
\* kinds reaches getCachedOrFetch translated by the closure, with a reason of
\* its own for each kind.
C7_TranslatedEverywhere ==
    \A p \in Callers :
        (pc[p] \in {"sleeping", "failed"} /\ rawError[p] \in FiveKinds) =>
            /\ ~lastError[p].isAxios
            /\ lastError[p].message # rawError[p].message
            /\ \A e \in FiveKinds \ {rawError[p]} :
                   ClosureError(cop[p], e).message # lastError[p].message

\* C8: calls on the same key that overlap and found no fresh entry are not
\* coalesced: each has invoked its own operation, and every iteration of a
\* call's loop invokes the operation whatever another call stored meanwhile.
C8_NotCoalesced ==
    /\ \A p \in Callers :
           (pc[p] # "idle" /\ StaleAtBegin(p)) =>
               invoked[p] = Len(delays[p]) + (IF pc[p] = "sleeping" THEN 0 ELSE 1)
    /\ \A p, q \in Callers :
           (/\ p # q
            /\ pc[p] # "idle"
            /\ pc[q] # "idle"
            /\ ckey[p] = ckey[q]
            /\ StaleAtBegin(p)
            /\ StaleAtBegin(q))
           => (invoked[p] >= 1 /\ invoked[q] >= 1)

C8_Witness ==
    \E p, q \in Callers :
        /\ p # q
        /\ pc[q] = "sleeping"
        /\ pc[p] = "returned"
        /\ ckey[p] = ckey[q]
        /\ StaleAtBegin(p)
        /\ StaleAtBegin(q)
        /\ invoked[p] >= 1
        /\ IsFresh(cache[ckey[q]], now)

\* the argument lists of a wider set of tickers and windows
WideRequests ==
    {[op |-> "fetchStocks", ticker |-> NoTicker, minutes |-> NoMinutes]}
    \cup {[op |-> o, ticker |-> t, minutes |-> m] :
              o \in {"fetchStockPrice", "fetchStockHistory"},
              t \in {"", "A", "A_5", "_5", "price_A", "history_A_5", "all_stocks"},
              m \in {NoMinutes, 5, 55, -5}}

\* C9: no call of one operation reads or overwrites an entry another operation
\* wrote, and the keys of different operations differ for all tickers and
\* windows.
C9_KeysDisjoint ==
    /\ \A p \in Callers :
           pc[p] # "idle" => owner[ckey[p]] \in {"none", cop[p]}
    /\ calls = 0 =>
           \A r1, r2 \in WideRequests :
               r1.op # r2.op =>
                   CacheKey(r1.op, r1.ticker, r1.minutes)
                       # CacheKey(r2.op, r2.ticker, r2.minutes)

C9_Witness ==
    \E k1, k2 \in Keys :
        /\ owner[k1] = "fetchStockPrice"
        /\ owner[k2] = "fetchStockHistory"
        /\ cache[k1].present
        /\ cache[k2].present

\* the delays after a store at which the freshness of the entry is looked at
LaterMs == {k * 1000 : k \in 0..30}

\* C21: the entry a call stores carries the clock value the call read when it
\* began, not the clock value of the store; stored d ms after the call began,
\* it is fresh for 30000 - d ms from the store and no longer.
C21_StampedAtBegin ==
    \A p \in Callers :
        (pc[p] = "returned" /\ invoked[p] >= 1) =>
            /\ successAt[ckey[p]] = now
            /\ cache[ckey[p]].present
            /\ cache[ckey[p]].timestamp = cnow[p]
            /\ \A later \in LaterMs :
                   (now + later - cache[ckey[p]].timestamp < 30000)
                       = (later < 30000 - (now - cnow[p]))

C21_Witness ==
    \E p \in Callers :
        /\ pc[p] = "returned"
        /\ invoked[p] = 3
        /\ now - cnow[p] = 3000
        /\ cache[ckey[p]].timestamp = cnow[p]
        /\ successAt[ckey[p]] = now
        /\ ~(now + 27000 - cache[ckey[p]].timestamp < 30000)

\* C22: under every interleaving of calls on one key, the timestamp of the
\* key's entry never decreases: no step replaces an entry by one with an
\* older timestamp.
C22_StampNeverDecreases ==
    [][\A k \in Keys :
          (cache[k].present /\ cache'[k].present) =>
              cache'[k].timestamp >= cache[k].timestamp]_vars

(***************************************************************************)
(* Properties of alignTimeSeriesData.                                      *)
(***************************************************************************)
Stamps(history) == {history[i].lastUpdatedAt : i \in 1..Len(history)}
OutStamps(aligned) == {aligned[i].timestamp : i \in 1..Len(aligned)}
SameStamps(h1, h2) ==
    /\ Len(h1) = Len(h2)
    /\ \A i \in 1..Len(h1) : h1[i].lastUpdatedAt = h2[i].lastUpdatedAt

\* the output holds one record for each timestamp of both series, no other
InnerJoin ==
    /\ OutStamps(alignedData) = Stamps(stockAHistory) \cap Stamps(stockBHistory)
    /\ Len(alignedData) = Cardinality(OutStamps(alignedData))

\* C10 (as claimed): the output is the inner join on the timestamp; it is
\* empty for disjoint timestamps, and two series of length n carrying the same
\* timestamps give n records.
C10_AlignAsClaimed ==
    step = "aligned" =>
        /\ InnerJoin
        /\ (Stamps(stockAHistory) \cap Stamps(stockBHistory) = {} => alignedData = <<>>)
        /\ (SameStamps(stockAHistory, stockBHistory)
                => Len(alignedData) = Len(stockAHistory))

\* C10 (amended): the output is the inner join on the timestamp; it is empty
\* for disjoint timestamps, and two series carrying the same n timestamps, no
\* timestamp twice, give n records.
C10_AlignInnerJoin ==
    step = "aligned" =>
        /\ InnerJoin
        /\ (Stamps(stockAHistory) \cap Stamps(stockBHistory) = {} => alignedData = <<>>)
        /\ (/\ Stamps(stockAHistory) = Stamps(stockBHistory)
            /\ Len(stockAHistory) = Len(stockBHistory)
            /\ Cardinality(Stamps(stockAHistory)) = Len(stockAHistory))
               => Len(alignedData) = Len(stockAHistory)

C10_Witness ==
    /\ step = "aligned"
    /\ Len(stockAHistory) = 3
    /\ Cardinality(Stamps(stockAHistory)) = 2
    /\ Cardinality(Stamps(stockBHistory)) = 2
    /\ Len(alignedData) = 1

\* the first and the last place a series carries a timestamp at
FirstIndex(history, t) ==
    CHOOSE i \in 1..Len(history) :
        /\ history[i].lastUpdatedAt = t
        /\ \A j \in 1..(i - 1) : history[j].lastUpdatedAt # t
LastIndex(history, t) ==
    CHOOSE i \in 1..Len(history) :
        /\ history[i].lastUpdatedAt = t
        /\ \A j \in (i + 1)..Len(history) : history[j].lastUpdatedAt # t
LastPrice(history, t) == history[LastIndex(history, t)].price
Reverse(history) == [i \in 1..Len(history) |-> history[Len(history) + 1 - i]]
StampsInOrder(aligned) == [i \in 1..Len(aligned) |-> aligned[i].timestamp]

\* C20: a record of the output carries, for each series, the price of the
\* last occurrence of its timestamp in that series; no timestamp is emitted
\* twice; the records are in the order in which their timestamps first occur
\* in series A, whatever the order of series B.
C20_LastWriteWins ==
    step = "aligned" =>
        /\ \A i \in 1..Len(alignedData) :
               /\ alignedData[i].stockAPrice
                      = LastPrice(stockAHistory, alignedData[i].timestamp)
               /\ alignedData[i].stockBPrice
                      = LastPrice(stockBHistory, alignedData[i].timestamp)
        /\ \A i, j \in 1..Len(alignedData) :
               i < j =>
                   /\ alignedData[i].timestamp # alignedData[j].timestamp
                   /\ FirstIndex(stockAHistory, alignedData[i].timestamp)
                          < FirstIndex(stockAHistory, alignedData[j].timestamp)
        /\ StampsInOrder(alignTimeSeriesData(stockAHistory, Reverse(stockBHistory)))
               = StampsInOrder(alignedData)

C20_Witness ==
    /\ step = "aligned"
    /\ Len(alignedData) = 2
    /\ Len(stockAHistory) = 3
    /\ stockAHistory[1].lastUpdatedAt = stockAHistory[3].lastUpdatedAt
    /\ stockAHistory[1].price # stockAHistory[3].price
    /\ alignedData[1].timestamp = stockAHistory[1].lastUpdatedAt
    /\ alignedData[1].stockAPrice = stockAHistory[3].price
    /\ Len(stockBHistory) = 2
    /\ stockBHistory[1].lastUpdatedAt = alignedData[2].timestamp

(***************************************************************************)
(* Properties of calculateCorrelation.                                     *)
(***************************************************************************)
\* the timestamps both series carry
Common(h1, h2) == Stamps(h1) \cap Stamps(h2)
ConstantOn(history, stamps) ==
    \A t, u \in stamps : LastPrice(history, t) = LastPrice(history, u)

\* the prices of h2 are p / q times the prices of h1 plus a constant
LinearOn(h1, h2, stamps, p, q) ==
    \A t, u \in stamps :
        q * (LastPrice(h2, t) - LastPrice(h2, u))
            = p * (LastPrice(h1, t) - LastPrice(h1, u))

Present == ~IsMissing(stockAHistory) /\ ~IsMissing(stockBHistory)
LongEnough == Present /\ Len(stockAHistory) >= 2 /\ Len(stockBHistory) >= 2
CommonStamps == Common(stockAHistory, stockBHistory)

SlopeNumerators == {-2, -1, 1, 2}
SlopeDenominators == {1, 2}

\* C12: when the aligned prices of B are a * A + b over at least 2 common
\* timestamps, A not constant there, calculateCorrelation returns 1 for a > 0
\* and -1 for a < 0; a series against a copy of itself gives 1, 10,12,14
\* against 20,24,28 gives 1 and against 28,24,20 gives -1.
C12_LinearIsUnit ==
    (step = "correlated" /\ LongEnough /\ Cardinality(CommonStamps) >= 2
        /\ ~ConstantOn(stockAHistory, CommonStamps)) =>
        /\ \A p \in SlopeNumerators, q \in SlopeDenominators :
               LinearOn(stockAHistory, stockBHistory, CommonStamps, p, q) =>
                   correlation = (IF p > 0 THEN One ELSE MinusOne)
        /\ stockAHistory = stockBHistory => correlation = One
        /\ (stockAHistory = Rising /\ stockBHistory = Doubled) => correlation = One
        /\ (stockAHistory = Rising /\ stockBHistory = Falling) => correlation = MinusOne

C12_Witness ==
    /\ step = "correlated"
    /\ stockAHistory = Rising
    /\ stockBHistory = Falling
    /\ LinearOn(stockAHistory, stockBHistory, CommonStamps, -2, 1)
    /\ correlation = MinusOne

\* C13: the value calculateCorrelation returns lies in [-1, 1]: its square,
\* the squared covariance over the product of the variances, is at most 1.
C13_InRange ==
    step = "correlated" =>
        /\ correlation.sign \in {-1, 0, 1}
        /\ correlation.den > 0
        /\ 0 <= correlation.num
        /\ correlation.num <= correlation.den
        /\ (correlation.sign = 0) = (correlation.num = 0)

C13_Witness ==
    /\ step = "correlated"
    /\ correlation.sign = -1
    /\ correlation.num = 1
    /\ correlation.den = 4

(***************************************************************************)
(* Properties of the single-series statistics.                             *)
(***************************************************************************)
\* the sample standard deviation of the prices of a series of n >= 2 points:
\* the root of the sum of squared deviations from the mean over n - 1
SampleDeviation(history) ==
    LET n == Len(history)
        total == Sum([i \in 1..n |-> history[i].price])
        squares == Sum([i \in 1..n |-> (n * history[i].price - total)
                                          * (n * history[i].price - total)])
        square == Divide(squares, n * n * (n - 1))
    IN  [sign |-> Sign(squares), num |-> square.num, den |-> square.den]

\* C18 (as claimed): for a series of n >= 2 points, calculateStatistics and
\* getStockStats both return the sample standard deviation, hence the same
\* value.
C18_SampleEverywhere ==
    (step = "statistics" /\ ~IsMissing(stockAHistory) /\ Len(stockAHistory) >= 2) =>
        /\ statistics.standardDeviation = SampleDeviation(stockAHistory)
        /\ stockStats.standardDeviation = SampleDeviation(stockAHistory)
        /\ statistics.standardDeviation = stockStats.standardDeviation

(***************************************************************************)
(* Properties of the correlation matrix of CorrelationHeatmap.             *)
(***************************************************************************)
\* the number of instruments the matrix is built on
VisibleCount == IF maxStocks < Len(stocks) THEN maxStocks ELSE Len(stocks)
IsSquare(matrix, k) ==
    Len(matrix) = k /\ \A i \in 1..k : Len(matrix[i]) = k

\* correlation(A, B) = correlation(B, A) for all bounded series, A named in
\* the order of its timestamps' first occurrences
SymmetricOn(firsts, seconds) ==
    \A a \in firsts, b \in seconds :
        calculateCorrelation(a, b) = calculateCorrelation(b, a)

C15_SquareUnitDiagonal ==
    (bpc = "built" /\ Len(stocks) <= maxStocks) =>
        /\ IsSquare(correlationMatrix, Len(stocks))
        /\ \A i \in 1..Len(stocks) : correlationMatrix[i][i] = One

C15_Witness ==
    /\ bpc = "built"
    /\ Len(stocks) = 3
    /\ fetchStatus = <<"caught", "fulfilled", "fulfilled">>
    /\ results[2].history = <<>>
    /\ results[3].history = Flat
    /\ IsSquare(correlationMatrix, 3)
    /\ correlationMatrix[3][3] = One

\* C16: with a limit below the length of the list, fetchStockHistory is
\* called for the first limit instruments only, in the order of the list, and
\* the matrix is limit x limit with cell [i][j] the correlation of what the
\* fetches of the i-th and the j-th instrument of the list resolved to.
C16_LimitTruncates ==
    maxStocks < Len(stocks) =>
        /\ bpc \in {"mounted", "returned"} => requested = <<>>
        /\ bpc \in {"awaiting", "built"} =>
               requested = [i \in 1..maxStocks |->
                               [ticker |-> stocks[i], minutes |-> timeframe]]
        /\ \A i \in 1..Len(requested), j \in (maxStocks + 1)..Len(stocks) :
               requested[i].ticker # stocks[j]
        /\ bpc # "built" => correlationMatrix = <<>>
        /\ bpc = "built" =>
               /\ IsSquare(correlationMatrix, maxStocks)
               /\ \A i, j \in 1..maxStocks :
                      /\ results[i].symbol = stocks[i]
                      /\ i # j => correlationMatrix[i][j] =
                             calculateCorrelation(results[i].history, results[j].history)

C16_Witness ==
    /\ bpc = "built"
    /\ Len(stocks) = 3
    /\ maxStocks = 2
    /\ Len(requested) = 2
    /\ results[1].history = Rising
    /\ results[2].history = Backwards
    /\ correlationMatrix = <<<<One, MinusOne>>, <<MinusOne, One>>>>

\* C17: when the fetch of an instrument fails, the build still ends with the
\* matrix at full size and no error; the cells of that instrument's row and
\* column are 0 off the diagonal and 1 on it, and the cells between the
\* instruments whose fetches succeeded are the correlations of the histories
\* fetched.
C17_OneFetchFails ==
    bpc = "built" =>
        \A f \in 1..Len(fetchStatus) :
            fetchStatus[f] = "caught" =>
                /\ error = ""
                /\ ~loading
                /\ IsSquare(correlationMatrix, VisibleCount)
                /\ correlationMatrix[f][f] = One
                /\ \A j \in 1..VisibleCount :
                       j # f => /\ correlationMatrix[f][j] = Zero
                                /\ correlationMatrix[j][f] = Zero
                /\ \A i, j \in 1..VisibleCount :
                       (i # j /\ fetchStatus[i] = "fulfilled" /\ fetchStatus[j] = "fulfilled")
                           => correlationMatrix[i][j] =
                                  calculateCorrelation(results[i].history,
                                                       results[j].history)

C17_Witness ==
    /\ bpc = "built"
    /\ fetchStatus = <<"caught", "fulfilled", "fulfilled">>
    /\ results[2].history = Rising
    /\ results[3].history = Backwards
    /\ correlationMatrix[2][3] = MinusOne
    /\ correlationMatrix[1][2] = Zero
    /\ correlationMatrix[3][1] = Zero
    /\ correlationMatrix[1][1] = One

\* C19: fetchStockHistory has been called for every visible instrument when
\* the builder waits; a fetch that is pending can resolve or fail whatever
\* state the other fetches are in; the matrix and the histories are set only
\* when no fetch is pending, and never while one is.
C19_FanOutFanIn ==
    /\ bpc = "awaiting" =>
           Len(requested) = VisibleCount /\ Len(fetchStatus) = VisibleCount
    /\ \A i \in 1..Len(fetchStatus) :
           fetchStatus[i] = "pending" =>
               /\ ENABLED HistoryFetched(i, Rising)
               /\ ENABLED HistoryFailed(i)
               /\ correlationMatrix = <<>>
               /\ stockHistories = <<>>
               /\ bpc = "awaiting"
    /\ bpc = "built" =>
           \A i \in 1..VisibleCount : fetchStatus[i] \in {"fulfilled", "caught"}
    /\ correlationMatrix # <<>> => bpc = "built"

C19_Witness ==
    /\ bpc = "awaiting"
    /\ fetchStatus = <<"pending", "caught", "fulfilled">>
    /\ results[3].history = Rising
    /\ correlationMatrix = <<>>
    /\ loading

(***************************************************************************)
(* Properties of overlapping calls of fetchAllStockHistories.              *)
(***************************************************************************)
\* both the call of the earlier render and the call of the last render ran to
\* their end
BothBuilt == bpc = "built" /\ earlier.pc = "built"

\* the last render had another timeframe or other visible instruments
NewProps ==
    \/ earlier.minutes # timeframe
    \/ earlier.visible # visibleStocks(stocks, maxStocks)

\* what the call of the last render computed
LastHistories == CollectHistories(results)
LastMatrix == BuildMatrix(visibleStocks(stocks, maxStocks), LastHistories)

\* C23: when a second build is started while an earlier one is in flight,
\* then once both have completed the stored correlation matrix and the
\* stored histories are those of the build started last, whichever of the two
\* finished first.
C23_LastStartedWins ==
    (BothBuilt /\ NewProps) =>
        (stockHistories = LastHistories /\ correlationMatrix = LastMatrix)

\* the two builds completed and differ in what they computed
C23_Overlap ==
    /\ BothBuilt
    /\ NewProps
    /\ CollectHistories(earlier.results) # LastHistories
    /\ stockHistories = LastHistories
    /\ correlationMatrix = LastMatrix

====
